---------------------------- MODULE Spec2Model ----------------------------
(***************************************************************************)
(* Model of go-webspider's crawl engine, webspider.SpiderWebsite, and of   *)
(* its link classifier (extractLinks and the functions it calls), with the *)
(* part of the command line's main that calls it and handles signals.      *)
(*                                                                         *)
(* Strings are modelled structurally.  A URL string is a record            *)
(*    [ok, ws, scheme, host, path, query, frag, tail]                      *)
(* ok     : url.Parse accepts the text that stands before the tail         *)
(* ws     : the text carries leading or trailing white space               *)
(* scheme : the text before "://", "" when there is none                   *)
(* host   : the sequence of the host's dot-separated labels                *)
(* path   : the sequence of the path's tokens ("/", a name, an extension)  *)
(* query  : the sequence of the query's [k, v] pairs                       *)
(* frag   : the text after "#", "" when there is none                      *)
(* tail   : what follows the first of the characters white space, double   *)
(*          quote, ")", "'", "]", "}" (with that character), "" if none    *)
(* Two URL strings are equal exactly when their records are equal.         *)
(***************************************************************************)
EXTENDS Integers, Sequences, FiniteSets, TLC

\* ------------------------------------------------------------ bounds
\* largest MaxPages a caller passes (the smallest is -1)
MaxPagesHi == 2
\* largest MaxDepth a caller passes (the smallest is -1)
MaxDepthHi == 2
\* largest Concurrency a caller passes (the smallest is 1)
MaxConcurrency == 2
\* most links the fetcher returns for one page
MaxLinks == 2

\* the links on the seed's page of scenario C (50 there): more than the
\* channel of a crawl with MaxPages 1 can hold
WideLinks == 4

\* ------------------------------------------------------------ strings
URL(ok, ws, scheme, host, path, query, frag, tail) ==
    [ok |-> ok, ws |-> ws, scheme |-> scheme, host |-> host, path |-> path,
     query |-> query, frag |-> frag, tail |-> tail]

\* the empty string
EmptyStr == URL(TRUE, FALSE, "", <<>>, <<>>, <<>>, "", "")

\* strings.ToLower on one token
ToLower(t) ==
    CASE t = "A"    -> "a"
      [] t = "WWW"  -> "www"
      [] t = ".PDF" -> ".pdf"
      [] t = "ITEM" -> "item"
      [] t = "FORM" -> "form"
      [] OTHER      -> t

\* strings.ToLower on a sequence of tokens
ToLowerSeq(s) == [i \in 1..Len(s) |-> ToLower(s[i])]

\* strings.TrimSpace
TrimSpace(s) == [s EXCEPT !.ws = FALSE]

\* strings.HasPrefix(href, "#"): nothing stands before the fragment
IsFragmentOnly(s) ==
    /\ s.frag # ""
    /\ s.scheme = "" /\ s.host = <<>> /\ s.path = <<>> /\ s.query = <<>>

\* strings.HasSuffix(a, "." + b) on hosts: b's labels end a, after a dot
HasDotSuffix(a, b) ==
    /\ Len(b) > 0
    /\ Len(a) > Len(b)
    /\ SubSeq(a, Len(a) - Len(b) + 1, Len(a)) = b

\* strings.TrimPrefix(host, "www.")
TrimWww(h) == IF Len(h) >= 2 /\ h[1] = "www" THEN Tail(h) ELSE h

\* ------------------------------------------------------------ classifier
\* sanitizeRegex.FindString: "http://" or "https://", then the longest run
\* of characters that are none of white space, double quote, ")", "'", "]", "}"
sanitizeURL(rawURL) ==
    LET s == TrimSpace(rawURL)
    IN  IF /\ s.scheme \in {"http", "https"}
           /\ (s.host # <<>> \/ s.path # <<>> \/ s.query # <<>> \/ s.frag # "")
           THEN [s EXCEPT !.tail = ""]
           ELSE EmptyStr

\* mutant: subdomains are in scope whatever crawlSubDomain says
shouldCrawlURL_AnyFlag(targetURL, baseURL, crawlSubDomain) ==
    LET targetHost == ToLowerSeq(targetURL.host)
        baseHost   == ToLowerSeq(baseURL.host)
        targetHostClean == TrimWww(targetHost)
        baseHostClean   == TrimWww(baseHost)
    IN  \/ targetHost = baseHost
        \/ HasDotSuffix(targetHostClean, baseHostClean)
        \/ HasDotSuffix(baseHostClean, targetHostClean)

shouldCrawlURL(targetURL, baseURL, crawlSubDomain) ==
    LET targetHost == ToLowerSeq(targetURL.host)
        baseHost   == ToLowerSeq(baseURL.host)
        targetHostClean == TrimWww(targetHost)
        baseHostClean   == TrimWww(baseHost)
    IN  \/ targetHost = baseHost
        \/ /\ crawlSubDomain
           /\ \/ HasDotSuffix(targetHostClean, baseHostClean)
              \/ HasDotSuffix(baseHostClean, targetHostClean)

fileExtensions ==
    {".pdf", ".doc", ".docx", ".xls", ".xlsx", ".ppt", ".pptx", ".zip",
     ".rar", ".gz", ".tar", ".svg", ".png", ".jpg", ".jpeg", ".gif"}

\* u.Query().Get(key): the value of the first pair with that key, else ""
QueryGet(q, key) ==
    IF \E i \in 1..Len(q) : q[i].k = key
       THEN q[CHOOSE i \in 1..Len(q) :
                 /\ q[i].k = key
                 /\ \A j \in 1..(i - 1) : q[j].k # key].v
       ELSE ""

\* mutant: the extension of the path is not looked at
isFileURL_NoExtension(u) ==
    LET path == ToLowerSeq(u.path)
    IN  \/ QueryGet(u.query, "download") = "1"
        \/ \E i \in 1..(Len(path) - 2) :
              path[i] = "/" /\ path[i + 1] = "resource" /\ path[i + 2] = "/"
        \/ \E i \in 1..Len(u.query) :
              /\ ToLower(u.query[i].k) = "item"
              /\ ToLower(u.query[i].v) \in {"form", "statute"}

isFileURL(u) ==
    LET path == ToLowerSeq(u.path)
    IN  \/ QueryGet(u.query, "download") = "1"
        \/ Len(path) > 0 /\ path[Len(path)] \in fileExtensions
        \/ \E i \in 1..(Len(path) - 2) :
              path[i] = "/" /\ path[i + 1] = "resource" /\ path[i + 2] = "/"
        \/ \E i \in 1..Len(u.query) :
              /\ ToLower(u.query[i].k) = "item"
              /\ ToLower(u.query[i].v) \in {"form", "statute"}

\* url.URL.IsAbs
IsAbs(u) == u.scheme # ""

\* url.URL.ResolveReference for a reference that is not absolute
ResolveReference(base, ref) ==
    [ref EXCEPT !.scheme = base.scheme,
                !.host = IF ref.host = <<>> THEN base.host ELSE ref.host,
                !.path = IF ref.host # <<>> \/ (Len(ref.path) > 0 /\ ref.path[1] = "/")
                            THEN ref.path
                            ELSE IF ref.path = <<>> THEN base.path
                            ELSE SubSeq(base.path, 1, Len(base.path) - 1) \o ref.path]

\* What processLinkFromResponse adds to the two sets for one href:
\* [kind |-> "drop"], or [kind |-> "file" or "crawl", url |-> cleanURL].
processLinkFromResponse(href, baseURL, parsedBaseURL, crawlSubDomain) ==
    IF href = EmptyStr \/ IsFragmentOnly(href) THEN [kind |-> "drop"]
    ELSE LET sanitizedLink == sanitizeURL(href)
         IN  IF sanitizedLink = EmptyStr THEN [kind |-> "drop"]
             ELSE IF ~sanitizedLink.ok THEN [kind |-> "drop"]
             ELSE IF ~IsAbs(sanitizedLink) /\ ~baseURL.ok THEN [kind |-> "drop"]
             ELSE LET resolvedURL == IF IsAbs(sanitizedLink) THEN sanitizedLink
                                     ELSE ResolveReference(baseURL, sanitizedLink)
                      cleanURL == [resolvedURL EXCEPT !.frag = ""]
                  IN  IF ~shouldCrawlURL(resolvedURL, parsedBaseURL, crawlSubDomain)
                         THEN [kind |-> "drop"]
                      ELSE IF isFileURL(resolvedURL)
                         THEN [kind |-> "file", url |-> cleanURL]
                      ELSE [kind |-> "crawl", url |-> cleanURL]

\* mutant: the file links of a page are put in its crawlable set as well
extractLinks_FilesAlsoCrawlable(links, baseURL, parsedBaseURL, crawlSubDomain) ==
    LET kept == {TrimSpace(l) : l \in links} \ {EmptyStr}
        cls(h) == processLinkFromResponse(h, baseURL, parsedBaseURL, crawlSubDomain)
    IN  [crawlableLinks |-> {cls(h).url : h \in {x \in kept : cls(x).kind # "drop"}},
         fileLinks      |-> {cls(h).url : h \in {x \in kept : cls(x).kind = "file"}}]

\* extractLinks: the two per-page sets, from the set of the page's hrefs
extractLinks(links, baseURL, parsedBaseURL, crawlSubDomain) ==
    LET kept == {TrimSpace(l) : l \in links} \ {EmptyStr}
        cls(h) == processLinkFromResponse(h, baseURL, parsedBaseURL, crawlSubDomain)
    IN  [crawlableLinks |-> {cls(h).url : h \in {x \in kept : cls(x).kind = "crawl"}},
         fileLinks      |-> {cls(h).url : h \in {x \in kept : cls(x).kind = "file"}}]

\* ------------------------------------------------------------ inputs
Https(host, path, query, frag, tail) ==
    URL(TRUE, FALSE, "https", host, path, query, frag, tail)

\* https://a.test/
SeedA == Https(<<"a", "test">>, <<"/">>, <<>>, "", "")
\* a text url.Parse rejects (an invalid escape in the host)
SeedBad == URL(FALSE, FALSE, "https", <<"a%zz", "test">>, <<"/">>, <<>>, "", "")
Seeds == {SeedA, SeedBad}

\* https://a.test/p1
LinkP1 == Https(<<"a", "test">>, <<"/", "p1">>, <<>>, "", "")
\* https://a.test/#top : the seed, with a fragment
LinkTop == Https(<<"a", "test">>, <<"/">>, <<>>, "top", "")
\* https://a.test/doc.pdf
LinkPdf == Https(<<"a", "test">>, <<"/", "doc", ".pdf">>, <<>>, "", "")
\* https://sub.a.test/
LinkSub == Https(<<"sub", "a", "test">>, <<"/">>, <<>>, "", "")
\* https://b.test/
LinkOther == Https(<<"b", "test">>, <<"/">>, <<>>, "", "")
\* /p2 : a relative href
LinkRel == URL(TRUE, FALSE, "", <<>>, <<"/", "p2">>, <<>>, "", "")

\* the hrefs the pages of a one-host site carry
SiteA == {LinkP1, LinkTop, LinkPdf, LinkOther, LinkRel}
\* the hrefs the pages of a site with a subdomain carry
SiteSub == {LinkSub, LinkTop, LinkPdf, LinkOther, LinkRel}
Sites == {SiteA, SiteSub}

\* https://a.test/p2
LinkP2 == Https(<<"a", "test">>, <<"/", "p2">>, <<>>, "", "")

\* the links of the seed page of scenario A
PageA == {LinkP1, LinkP2, LinkPdf}

\* https://www.a.test/
LinkWww == Https(<<"www", "a", "test">>, <<"/">>, <<>>, "", "")
\* https://A.test/p1 : the seed's host in another case
LinkUpper == Https(<<"A", "test">>, <<"/", "p1">>, <<>>, "", "")
\* https://test/ : the parent domain of a.test
LinkParent == Https(<<"test">>, <<"/">>, <<>>, "", "")

\* the last path segments of the links of scenario C
WideNames == <<"w1", "w2", "w3", "w4", "w5", "w6">>

\* the links of the seed page of scenario C: https://a.test/w1, ...
PageC ==
    {Https(<<"a", "test">>, <<"/", WideNames[i]>>, <<>>, "", "") :
        i \in 1..WideLinks}

\* the seeds and the hrefs the scope rule is tried on
ScopeSeeds == {SeedA, LinkWww, LinkSub}
ScopeHrefs ==
    {LinkP1, LinkUpper, LinkWww, LinkSub, LinkParent, LinkOther, LinkPdf,
     LinkRel}

\* the link lists the fetcher may return for one page of a site
LinkLists(hrefs) == {L \in SUBSET hrefs : Cardinality(L) <= MaxLinks}

\* the SpiderOptions a caller may pass
OptionsSet ==
    [MaxPages : (-1)..MaxPagesHi, MaxDepth : (-1)..MaxDepthHi,
     CrawlSubDomain : BOOLEAN, Concurrency : 1..MaxConcurrency,
     DelayBetween : {0, 1}]

\* ------------------------------------------------------------ state
VARIABLES
    mainPc,         \* where the caller of SpiderWebsite is
    ctxDone,        \* main's context was cancelled
    options0,       \* the SpiderOptions as they were when the call was made
    options,        \* the SpiderOptions the caller's pointer refers to
    targetURL,      \* the seed
    site,           \* the link lists the fetcher may find on a page it returns
    pc,             \* where the scheduler (SpiderWebsite's own goroutine) is
    job,            \* the urlJob the scheduler received and is admitting
    urlJobs,        \* the buffered channel of urlJob
    visitedURLs,    \* the keys of the visitedURLs map
    result,         \* the SpiderResult
    mu,             \* who holds mu: Unlocked, Scheduler or a worker's index
    semaphore,      \* how many permits the semaphore channel holds
    wg,             \* the WaitGroup's counter
    activeWorkers,
    currentActiveWorkers,   \* the scheduler's copy, read under workerMu
    workers         \* one record for each goroutine started, in start order

vars ==
    <<mainPc, ctxDone, options0, options, targetURL, site, pc, job, urlJobs,
      visitedURLs, result, mu, semaphore, wg, activeWorkers,
      currentActiveWorkers, workers>>

Unlocked == 0 - 1
Scheduler == 0
NoJob == [url |-> EmptyStr, depth |-> 0 - 1]

urlJob(url, depth) == [url |-> url, depth |-> depth]

EmptyResult ==
    [Content |-> <<>>, CrawledURLs |-> <<>>, DetectedFileUrls |-> <<>>,
     TotalPages |-> 0, SuccessfulPages |-> 0, FailedPages |-> <<>>]

\* a Go map is a function; its keys
Keys(m) == DOMAIN m

\* m[key] = value
MapSet(m, key, value) ==
    [x \in (DOMAIN m) \cup {key} |-> IF x = key THEN value ELSE m[x]]

\* the orders in which ranging over a map with key set S may yield its keys
RECURSIVE Orders(_)
Orders(S) ==
    IF S = {} THEN {<<>>}
    ELSE UNION {{<<x>> \o t : t \in Orders(S \ {x})} : x \in S}

\* the state a call of SpiderWebsite starts in
Called(o, seed, pages) ==
    /\ mainPc = "call"
    /\ ctxDone = FALSE
    /\ options0 = o
    /\ options = o
    /\ targetURL = seed
    /\ site = pages
    /\ pc = "start"
    /\ job = NoJob
    /\ urlJobs = <<>>
    /\ visitedURLs = {}
    /\ result = EmptyResult
    /\ mu = Unlocked
    /\ semaphore = 0
    /\ wg = 0
    /\ activeWorkers = 0
    /\ currentActiveWorkers = 0
    /\ workers = <<>>

Init ==
    \E o \in OptionsSet, seed \in Seeds, hrefs \in Sites :
        Called(o, seed, LinkLists(hrefs))

\* scenario A: MaxDepth 1 and MaxPages 10, on the seed https://a.test/
\* whose page carries the links of PageA
OptionsA ==
    [MaxPages : {10}, MaxDepth : {1}, CrawlSubDomain : BOOLEAN,
     Concurrency : 1..MaxConcurrency, DelayBetween : {0, 1}]

InitA == \E o \in OptionsA : Called(o, SeedA, {PageA})

\* scenario C: MaxPages 1, on the seed https://a.test/ whose page carries
\* the links of PageC
OptionsC ==
    [MaxPages : {1}, MaxDepth : 1..MaxDepthHi, CrawlSubDomain : BOOLEAN,
     Concurrency : 1..MaxConcurrency, DelayBetween : {0, 1}]

InitC == \E o \in OptionsC : Called(o, SeedA, {PageC})

\* the crawls the scope rule is tried in: every page carries one href, and
\* the limits let the seed's page be expanded and its link be fetched
OptionsScope ==
    [MaxPages : {2}, MaxDepth : {1}, CrawlSubDomain : BOOLEAN,
     Concurrency : 1..MaxConcurrency, DelayBetween : {0, 1}]

InitScope ==
    \E o \in OptionsScope, seed \in ScopeSeeds, href \in ScopeHrefs :
        Called(o, seed, {{href}})

\* CrawlSubDomain and DelayBetween as DefaultSpiderOptions sets them
DefaultScope(o) == o.CrawlSubDomain /\ o.DelayBetween = 1

LiveInit ==
    \E o \in OptionsSet, seed \in Seeds, hrefs \in Sites :
        DefaultScope(o) /\ Called(o, seed, LinkLists(hrefs))


\* ------------------------------------------------------------ scheduler
\* mutant: only a negative MaxPages is replaced
CoerceMaxPages_NegativeOnly(o) ==
    IF o.MaxPages < 0 THEN [o EXCEPT !.MaxPages = 1] ELSE o

\* if options.MaxPages <= 0 { options.MaxPages = 1 }
CoerceMaxPages(o) == IF o.MaxPages <= 0 THEN [o EXCEPT !.MaxPages = 1] ELSE o

\* mutant: the error of url.Parse is ignored
ParseOK_Ignored(u) == TRUE

\* url.Parse(targetURL) returns no error
ParseOK(u) == u.ok

\* cap(urlJobs)
urlJobsCap(o) == o.MaxPages * 2

\* mutant: the semaphore is made one permit too large
semaphoreCap_OneMore(o) == o.Concurrency + 1

\* cap(semaphore)
semaphoreCap(o) == o.Concurrency

\* mutant: > for >=
PageLimitReached_Late(r, o) == r.TotalPages > o.MaxPages

\* result.TotalPages >= options.MaxPages, as tested on receiving a job and
\* again after starting its worker
PageLimitReached(r, o) == r.TotalPages >= o.MaxPages

\* job.depth > options.MaxDepth
DepthExceeded(j, o) == j.depth > o.MaxDepth

\* mutant: the visited map is never consulted
IsVisited_Never(v, url) == FALSE

\* visitedURLs[job.url]
IsVisited(v, url) == url \in v

\* mutant: the scheduler does not wait for the workers
WaitReturns_AtOnce(n) == TRUE

\* wg.Wait() returns
WaitReturns(n) == n = 0

\* a send on a buffered channel holding n of cap values can proceed
CanSend(n, cap) == n < cap

\* the goroutine started for one admitted job
NewWorker(j, o) ==
    [pc |-> IF o.DelayBetween > 0 THEN "sleep" ELSE "fetch",
     currentURL |-> j.url, currentDepth |-> j.depth,
     crawlableLinks |-> {}, fileLinks |-> {}]

\* lines 56-81: coerce MaxPages, parse the seed, make the result, the
\* visited map and the channel, and send the seed job
Start ==
    /\ pc = "start"
    /\ options' = CoerceMaxPages(options)
    /\ IF ParseOK(targetURL)
          THEN /\ pc' = "select"
               /\ urlJobs' = <<urlJob(targetURL, 0)>>
          ELSE /\ pc' = "error"
               /\ UNCHANGED urlJobs
    /\ UNCHANGED <<mainPc, ctxDone, options0, targetURL, site, job,
                   visitedURLs, result, mu, semaphore, wg, activeWorkers,
                   currentActiveWorkers, workers>>

\* lines 90-93: case job := <-urlJobs, and the limit and depth test
ReceiveJob ==
    /\ pc = "select"
    /\ urlJobs # <<>>
    /\ urlJobs' = Tail(urlJobs)
    /\ IF PageLimitReached(result, options) \/ DepthExceeded(Head(urlJobs), options)
          THEN UNCHANGED <<pc, job>>
          ELSE /\ pc' = "lock"
               /\ job' = Head(urlJobs)
    /\ UNCHANGED <<mainPc, ctxDone, options0, options, targetURL, site,
                   visitedURLs, result, mu, semaphore, wg, activeWorkers,
                   currentActiveWorkers, workers>>

\* line 95: mu.Lock()
AdmitLock ==
    /\ pc = "lock"
    /\ mu = Unlocked
    /\ mu' = Scheduler
    /\ pc' = "visited"
    /\ UNCHANGED <<mainPc, ctxDone, options0, options, targetURL, site, job,
                   urlJobs, visitedURLs, result, semaphore, wg, activeWorkers,
                   currentActiveWorkers, workers>>

\* lines 96-100: a visited URL is skipped, another one is marked
AdmitMark ==
    /\ pc = "visited"
    /\ IF IsVisited(visitedURLs, job.url)
          THEN /\ mu' = Unlocked
               /\ pc' = "select"
               /\ job' = NoJob
               /\ UNCHANGED visitedURLs
          ELSE /\ visitedURLs' = visitedURLs \cup {job.url}
               /\ pc' = "count"
               /\ UNCHANGED <<mu, job>>
    /\ UNCHANGED <<mainPc, ctxDone, options0, options, targetURL, site,
                   urlJobs, result, semaphore, wg, activeWorkers,
                   currentActiveWorkers, workers>>

\* mutant: mu is still held when the scheduler goes for a permit
AdmitCount_NoUnlock ==
    /\ pc = "count"
    /\ result' = [result EXCEPT !.TotalPages = @ + 1]
    /\ pc' = "acquire"
    /\ UNCHANGED <<mainPc, ctxDone, options0, options, targetURL, site, job,
                   urlJobs, visitedURLs, mu, semaphore, wg, activeWorkers,
                   currentActiveWorkers, workers>>

\* lines 101-102: result.TotalPages++ ; mu.Unlock()
AdmitCount ==
    /\ pc = "count"
    /\ result' = [result EXCEPT !.TotalPages = @ + 1]
    /\ mu' = Unlocked
    /\ pc' = "acquire"
    /\ UNCHANGED <<mainPc, ctxDone, options0, options, targetURL, site, job,
                   urlJobs, visitedURLs, semaphore, wg, activeWorkers,
                   currentActiveWorkers, workers>>

\* mutant: the scheduler goes on without waiting for a free permit
AcquirePermit_NoWait ==
    /\ pc = "acquire"
    /\ semaphore' = semaphore + 1
    /\ pc' = "spawn"
    /\ UNCHANGED <<mainPc, ctxDone, options0, options, targetURL, site, job,
                   urlJobs, visitedURLs, result, mu, wg, activeWorkers,
                   currentActiveWorkers, workers>>

\* line 104: semaphore <- struct{}{}
AcquirePermit ==
    /\ pc = "acquire"
    /\ CanSend(semaphore, semaphoreCap(options))
    /\ semaphore' = semaphore + 1
    /\ pc' = "spawn"
    /\ UNCHANGED <<mainPc, ctxDone, options0, options, targetURL, site, job,
                   urlJobs, visitedURLs, result, mu, wg, activeWorkers,
                   currentActiveWorkers, workers>>

\* lines 105-110 and 199-205: wg.Add(1), activeWorkers++, go func(...),
\* then the test that ends the loop
StartWorker ==
    /\ pc = "spawn"
    /\ wg' = wg + 1
    /\ activeWorkers' = activeWorkers + 1
    /\ workers' = Append(workers, NewWorker(job, options))
    /\ job' = NoJob
    /\ pc' = IF PageLimitReached(result, options) THEN "wait" ELSE "select"
    /\ UNCHANGED <<mainPc, ctxDone, options0, options, targetURL, site,
                   urlJobs, visitedURLs, result, mu, semaphore,
                   currentActiveWorkers>>

\* line 188: case <-time.After(2 * time.Second).  The select takes a job
\* that is ready when it is entered, so the timer wins only with the
\* channel empty.
Timeout ==
    /\ pc = "select"
    /\ urlJobs = <<>>
    /\ pc' = "timedOut"
    /\ UNCHANGED <<mainPc, ctxDone, options0, options, targetURL, site, job,
                   urlJobs, visitedURLs, result, mu, semaphore, wg,
                   activeWorkers, currentActiveWorkers, workers>>

\* lines 189-191: currentActiveWorkers := activeWorkers under workerMu
ReadActiveWorkers ==
    /\ pc = "timedOut"
    /\ currentActiveWorkers' = activeWorkers
    /\ pc' = "idleCheck"
    /\ UNCHANGED <<mainPc, ctxDone, options0, options, targetURL, site, job,
                   urlJobs, visitedURLs, result, mu, semaphore, wg,
                   activeWorkers, workers>>

\* mutant: the crawl is finished as soon as no worker is counted
IdleFinished_WorkersOnly(active, pending) == active = 0

\* mutant: the crawl is finished as soon as the channel is empty
IdleFinished_QueueOnly(active, pending) == pending = 0

\* line 192: currentActiveWorkers == 0 && len(urlJobs) == 0
IdleFinished(active, pending) == active = 0 /\ pending = 0

\* lines 192-196: goto done, or continue
IdleCheck ==
    /\ pc = "idleCheck"
    /\ pc' = IF IdleFinished(currentActiveWorkers, Len(urlJobs))
                THEN "wait" ELSE "select"
    /\ currentActiveWorkers' = 0      \* the local goes out of scope
    /\ UNCHANGED <<mainPc, ctxDone, options0, options, targetURL, site, job,
                   urlJobs, visitedURLs, result, mu, semaphore, wg,
                   activeWorkers, workers>>

\* mutant: with workers still running the scheduler goes back to its loop
Wait_BackToLoop ==
    /\ pc = "wait"
    /\ pc' = IF WaitReturns(wg) THEN "finalize" ELSE "select"
    /\ UNCHANGED <<mainPc, ctxDone, options0, options, targetURL, site, job,
                   urlJobs, visitedURLs, result, mu, semaphore, wg,
                   activeWorkers, currentActiveWorkers, workers>>

\* line 209: wg.Wait()
Wait ==
    /\ pc = "wait"
    /\ WaitReturns(wg)
    /\ pc' = "finalize"
    /\ UNCHANGED <<mainPc, ctxDone, options0, options, targetURL, site, job,
                   urlJobs, visitedURLs, result, mu, semaphore, wg,
                   activeWorkers, currentActiveWorkers, workers>>

\* line 211: mu.Lock()
FinalizeLock ==
    /\ pc = "finalize"
    /\ mu = Unlocked
    /\ mu' = Scheduler
    /\ pc' = "finalizing"
    /\ UNCHANGED <<mainPc, ctxDone, options0, options, targetURL, site, job,
                   urlJobs, visitedURLs, result, semaphore, wg, activeWorkers,
                   currentActiveWorkers, workers>>

\* lines 212-226: the list logged as "Detected file URLs that were not
\* crawled": result.DetectedFileUrls without its repetitions, in any order
finalFileList(r) ==
    Orders({r.DetectedFileUrls[i] : i \in 1..Len(r.DetectedFileUrls)})

\* what lines 212-231 leave in the result that is returned: finalFileList
\* is logged and dropped, ProcessingTime is not modelled
Finalized(r) == r

\* lines 212-231: log the file list, mu.Unlock(), return result, nil
Return ==
    /\ pc = "finalizing"
    /\ result' = Finalized(result)
    /\ mu' = Unlocked
    /\ pc' = "returned"
    /\ UNCHANGED <<mainPc, ctxDone, options0, options, targetURL, site, job,
                   urlJobs, visitedURLs, semaphore, wg, activeWorkers,
                   currentActiveWorkers, workers>>

\* ------------------------------------------------------------ workers
Workers == 1..Len(workers)

At(w, where) == workers[w].pc = where

Goto(w, where) == [workers EXCEPT ![w].pc = where]

\* mutant: <= for <
ShouldExpand_AtMaxDepth(depth, o) == depth <= o.MaxDepth

\* currentDepth < options.MaxDepth
ShouldExpand(depth, o) == depth < o.MaxDepth

\* lines 124-126: time.Sleep(options.DelayBetween)
Sleep(w) ==
    /\ At(w, "sleep")
    /\ workers' = Goto(w, "fetch")
    /\ UNCHANGED <<mainPc, ctxDone, options0, options, targetURL, site, pc,
                   job, urlJobs, visitedURLs, result, mu, semaphore, wg,
                   activeWorkers, currentActiveWorkers>>

\* line 132: webcrawl.CrawlWebsite returns an error
FetchFails(w) ==
    /\ At(w, "fetch")
    /\ workers' = Goto(w, "failLock")
    /\ UNCHANGED <<mainPc, ctxDone, options0, options, targetURL, site, pc,
                   job, urlJobs, visitedURLs, result, mu, semaphore, wg,
                   activeWorkers, currentActiveWorkers>>

\* line 132: webcrawl.CrawlWebsite returns a page
FetchSucceeds(w) ==
    /\ At(w, "fetch")
    /\ workers' = Goto(w, "okLock")
    /\ UNCHANGED <<mainPc, ctxDone, options0, options, targetURL, site, pc,
                   job, urlJobs, visitedURLs, result, mu, semaphore, wg,
                   activeWorkers, currentActiveWorkers>>

\* lines 134, 144, 168: mu.Lock()
WorkerLock(w) ==
    /\ \/ At(w, "failLock") /\ workers' = Goto(w, "failRecord")
       \/ At(w, "okLock") /\ workers' = Goto(w, "okRecord")
       \/ At(w, "fileLock") /\ workers' = Goto(w, "fileAppend")
    /\ mu = Unlocked
    /\ mu' = w
    /\ UNCHANGED <<mainPc, ctxDone, options0, options, targetURL, site, pc,
                   job, urlJobs, visitedURLs, result, semaphore, wg,
                   activeWorkers, currentActiveWorkers>>

\* mutant: the return after a failed fetch is missing
RecordFailure_NoReturn(w) ==
    /\ At(w, "failRecord")
    /\ result' = [result EXCEPT
                    !.FailedPages = MapSet(@, workers[w].currentURL, "error")]
    /\ mu' = Unlocked
    /\ workers' = Goto(w, "okLock")
    /\ UNCHANGED <<mainPc, ctxDone, options0, options, targetURL, site, pc,
                   job, urlJobs, visitedURLs, semaphore, wg, activeWorkers,
                   currentActiveWorkers>>

\* mutant: the failed page is fetched again
RecordFailure_Retry(w) ==
    /\ At(w, "failRecord")
    /\ result' = [result EXCEPT
                    !.FailedPages = MapSet(@, workers[w].currentURL, "error")]
    /\ mu' = Unlocked
    /\ workers' = Goto(w, "fetch")
    /\ UNCHANGED <<mainPc, ctxDone, options0, options, targetURL, site, pc,
                   job, urlJobs, visitedURLs, semaphore, wg, activeWorkers,
                   currentActiveWorkers>>

\* mutant: the return after a failed fetch skips the deferred decrement
\* of activeWorkers and the deferred release of the permit
RecordFailure_SkipsDefers(w) ==
    /\ At(w, "failRecord")
    /\ result' = [result EXCEPT
                    !.FailedPages = MapSet(@, workers[w].currentURL, "error")]
    /\ mu' = Unlocked
    /\ workers' = Goto(w, "wgDone")
    /\ UNCHANGED <<mainPc, ctxDone, options0, options, targetURL, site, pc,
                   job, urlJobs, visitedURLs, semaphore, wg, activeWorkers,
                   currentActiveWorkers>>

\* lines 135-141: result.FailedPages[currentURL] = err.Error(), unlock, return
RecordFailure(w) ==
    /\ At(w, "failRecord")
    /\ result' = [result EXCEPT
                    !.FailedPages = MapSet(@, workers[w].currentURL, "error")]
    /\ mu' = Unlocked
    /\ workers' = Goto(w, "exit")
    /\ UNCHANGED <<mainPc, ctxDone, options0, options, targetURL, site, pc,
                   job, urlJobs, visitedURLs, semaphore, wg, activeWorkers,
                   currentActiveWorkers>>

\* lines 146-159: add the page to Content, CrawledURLs and SuccessfulPages,
\* unlock, and below MaxDepth classify the links of the page
RecordSuccess(w) ==
    /\ At(w, "okRecord")
    /\ result' = [result EXCEPT
                    !.Content = Append(@, workers[w].currentURL),
                    !.CrawledURLs = Append(@, workers[w].currentURL),
                    !.SuccessfulPages = @ + 1]
    /\ mu' = Unlocked
    /\ IF ShouldExpand(workers[w].currentDepth, options)
          THEN \E links \in site :
                  LET x == extractLinks(links, workers[w].currentURL, targetURL,
                                        options.CrawlSubDomain)
                  IN  workers' = [workers EXCEPT
                                    ![w].pc = "fileLock",
                                    ![w].crawlableLinks = x.crawlableLinks,
                                    ![w].fileLinks = x.fileLinks]
          ELSE workers' = Goto(w, "exit")
    /\ UNCHANGED <<mainPc, ctxDone, options0, options, targetURL, site, pc,
                   job, urlJobs, visitedURLs, semaphore, wg, activeWorkers,
                   currentActiveWorkers>>

\* lines 169-170: append(result.DetectedFileUrls, fileLinks...), unlock
AppendFileLinks(w) ==
    /\ At(w, "fileAppend")
    /\ \E order \in Orders(workers[w].fileLinks) :
          result' = [result EXCEPT !.DetectedFileUrls = @ \o order]
    /\ mu' = Unlocked
    /\ workers' = [workers EXCEPT
                     ![w].pc = IF workers[w].crawlableLinks = {}
                                  THEN "exit" ELSE "enqueue",
                     ![w].fileLinks = {}]
    /\ UNCHANGED <<mainPc, ctxDone, options0, options, targetURL, site, pc,
                   job, urlJobs, visitedURLs, semaphore, wg, activeWorkers,
                   currentActiveWorkers>>

\* mutant: the send waits for room in the channel
Enqueue_Blocking(w) ==
    /\ At(w, "enqueue")
    /\ CanSend(Len(urlJobs), urlJobsCap(options))
    /\ \E link \in workers[w].crawlableLinks :
          /\ urlJobs' = Append(urlJobs,
                               urlJob(link, workers[w].currentDepth + 1))
          /\ workers' = [workers EXCEPT
                           ![w].crawlableLinks = @ \ {link},
                           ![w].pc = IF workers[w].crawlableLinks = {link}
                                        THEN "exit" ELSE "enqueue"]
    /\ UNCHANGED <<mainPc, ctxDone, options0, options, targetURL, site, pc,
                   job, visitedURLs, result, mu, semaphore, wg,
                   activeWorkers, currentActiveWorkers>>

\* lines 172-184: one turn of the loop over crawlableLinks: the link is
\* sent if the channel has room and skipped if not
Enqueue(w) ==
    /\ At(w, "enqueue")
    /\ \E link \in workers[w].crawlableLinks :
          /\ urlJobs' = IF CanSend(Len(urlJobs), urlJobsCap(options))
                           THEN Append(urlJobs,
                                       urlJob(link, workers[w].currentDepth + 1))
                           ELSE urlJobs
          /\ workers' = [workers EXCEPT
                           ![w].crawlableLinks = @ \ {link},
                           ![w].pc = IF workers[w].crawlableLinks = {link}
                                        THEN "exit" ELSE "enqueue"]
    /\ UNCHANGED <<mainPc, ctxDone, options0, options, targetURL, site, pc,
                   job, visitedURLs, result, mu, semaphore, wg, activeWorkers,
                   currentActiveWorkers>>

\* mutant: activeWorkers is not decremented
LeaveActive_NoDecrement(w) ==
    /\ At(w, "exit")
    /\ workers' = Goto(w, "release")
    /\ UNCHANGED <<mainPc, ctxDone, options0, options, targetURL, site, pc,
                   job, urlJobs, visitedURLs, result, mu, semaphore, wg,
                   activeWorkers, currentActiveWorkers>>

\* lines 113-117: the deferred activeWorkers--, under workerMu
LeaveActive(w) ==
    /\ At(w, "exit")
    /\ activeWorkers' = activeWorkers - 1
    /\ workers' = Goto(w, "release")
    /\ UNCHANGED <<mainPc, ctxDone, options0, options, targetURL, site, pc,
                   job, urlJobs, visitedURLs, result, mu, semaphore, wg,
                   currentActiveWorkers>>

\* mutant: the permit is not given back
ReleasePermit_Kept(w) ==
    /\ At(w, "release")
    /\ workers' = Goto(w, "wgDone")
    /\ UNCHANGED <<mainPc, ctxDone, options0, options, targetURL, site, pc,
                   job, urlJobs, visitedURLs, result, mu, semaphore, wg,
                   activeWorkers, currentActiveWorkers>>

\* line 112: the deferred <-semaphore
ReleasePermit(w) ==
    /\ At(w, "release")
    /\ semaphore' = semaphore - 1
    /\ workers' = Goto(w, "wgDone")
    /\ UNCHANGED <<mainPc, ctxDone, options0, options, targetURL, site, pc,
                   job, urlJobs, visitedURLs, result, mu, wg, activeWorkers,
                   currentActiveWorkers>>

\* line 111: the deferred wg.Done()
Done(w) ==
    /\ At(w, "wgDone")
    /\ wg' = wg - 1
    /\ workers' = Goto(w, "exited")
    /\ UNCHANGED <<mainPc, ctxDone, options0, options, targetURL, site, pc,
                   job, urlJobs, visitedURLs, result, mu, semaphore,
                   activeWorkers, currentActiveWorkers>>

\* ------------------------------------------------------------ specification
Next ==
    \/ Start
    \/ ReceiveJob
    \/ AdmitLock
    \/ AdmitMark
    \/ AdmitCount
    \/ AcquirePermit
    \/ StartWorker
    \/ Timeout
    \/ ReadActiveWorkers
    \/ IdleCheck
    \/ Wait
    \/ FinalizeLock
    \/ Return
    \/ \E w \in Workers : Sleep(w)
    \/ \E w \in Workers : FetchFails(w)
    \/ \E w \in Workers : FetchSucceeds(w)
    \/ \E w \in Workers : WorkerLock(w)
    \/ \E w \in Workers : RecordFailure(w)
    \/ \E w \in Workers : RecordSuccess(w)
    \/ \E w \in Workers : AppendFileLinks(w)
    \/ \E w \in Workers : Enqueue(w)
    \/ \E w \in Workers : LeaveActive(w)
    \/ \E w \in Workers : ReleasePermit(w)
    \/ \E w \in Workers : Done(w)

Spec == Init /\ [][Next]_vars

\* the steps of the goroutine that runs SpiderWebsite
SchedulerStep ==
    \/ Start \/ ReceiveJob \/ AdmitLock \/ AdmitMark \/ AdmitCount
    \/ AcquirePermit \/ StartWorker \/ Timeout \/ ReadActiveWorkers
    \/ IdleCheck
    \/ Wait \/ FinalizeLock \/ Return

\* the steps of the w-th goroutine started at line 110
WorkerStep(w) ==
    /\ w \in Workers
    /\ \/ Sleep(w) \/ FetchFails(w) \/ FetchSucceeds(w) \/ WorkerLock(w)
       \/ RecordFailure(w) \/ RecordSuccess(w) \/ AppendFileLinks(w)
       \/ Enqueue(w) \/ LeaveActive(w) \/ ReleasePermit(w) \/ Done(w)

\* the goroutines that can exist
WorkerIds == 1..MaxPagesHi

\* The Go scheduler runs the goroutines that can run, time.Sleep ends, and
\* every call of the fetcher returns: SpiderWebsite's goroutine is not
\* passed over for ever, and neither are the workers as a group.
\* The calls checked for progress keep DefaultSpiderOptions' scope and
\* politeness (CrawlSubDomain true, a delay between requests) and take any
\* MaxPages, MaxDepth and Concurrency.
LiveSpec ==
    /\ LiveInit
    /\ [][Next]_vars
    /\ WF_vars(SchedulerStep)
    /\ WF_vars(\E w \in WorkerIds : WorkerStep(w))

\* ------------------------------------------------------------ main
\* mutant: the crawl sees the cancellation and leaves its loop
Interrupt_StopsCrawl ==
    /\ mainPc = "call"
    /\ ~ctxDone
    /\ ctxDone' = TRUE
    /\ pc' = IF pc \in {"select", "timedOut", "idleCheck"} THEN "wait" ELSE pc
    /\ UNCHANGED <<mainPc, options0, options, targetURL, site, job, urlJobs,
                   visitedURLs, result, mu, semaphore, wg, activeWorkers,
                   currentActiveWorkers, workers>>

\* main.go lines 54-58: the goroutine that waits on sigChan receives
\* SIGINT or SIGTERM and calls cancel()
Interrupt ==
    /\ mainPc = "call"
    /\ ~ctxDone
    /\ ctxDone' = TRUE
    /\ UNCHANGED <<mainPc, options0, options, targetURL, site, pc, job,
                   urlJobs, visitedURLs, result, mu, semaphore, wg,
                   activeWorkers, currentActiveWorkers, workers>>

\* main.go lines 63-74: SpiderWebsite has returned; log.Fatalf on its
\* error, os.Exit(1) if ctx is done, else the report
AfterCall ==
    /\ mainPc = "call"
    /\ pc \in {"returned", "error"}
    /\ mainPc' = IF pc = "error" THEN "fatal"
                 ELSE IF ctxDone THEN "interrupted"
                 ELSE "report"
    /\ UNCHANGED <<ctxDone, options0, options, targetURL, site, pc, job,
                   urlJobs, visitedURLs, result, mu, semaphore, wg,
                   activeWorkers, currentActiveWorkers, workers>>

\* main.go lines 39-46: the options main builds have CrawlSubDomain true
InitMain ==
    \E o \in OptionsSet, seed \in Seeds, hrefs \in Sites :
        o.CrawlSubDomain /\ Called(o, seed, LinkLists(hrefs))

\* The crawl as the command line runs it, with its signal handler.
MainSpec == InitMain /\ [][Next \/ Interrupt \/ AfterCall]_vars

\* The crawl of a site whose pages carry one href, under every scope option.
ScopeSpec == InitScope /\ [][Next]_vars

\* The crawl of scenario A's site with a fetcher that may fail.
FailSpec == InitA /\ [][Next]_vars

\* The crawl with a fetcher that returns a page on every call.
NextUp ==
    \/ Start
    \/ ReceiveJob
    \/ AdmitLock
    \/ AdmitMark
    \/ AdmitCount
    \/ AcquirePermit
    \/ StartWorker
    \/ Timeout
    \/ ReadActiveWorkers
    \/ IdleCheck
    \/ Wait
    \/ FinalizeLock
    \/ Return
    \/ \E w \in Workers : Sleep(w)
    \/ \E w \in Workers : FetchSucceeds(w)
    \/ \E w \in Workers : WorkerLock(w)
    \/ \E w \in Workers : RecordSuccess(w)
    \/ \E w \in Workers : AppendFileLinks(w)
    \/ \E w \in Workers : Enqueue(w)
    \/ \E w \in Workers : LeaveActive(w)
    \/ \E w \in Workers : ReleasePermit(w)
    \/ \E w \in Workers : Done(w)

\* Scenarios A and C: the fetcher returns a page on every call, and no
\* goroutine that can run is passed over for ever.
ScenarioSpec ==
    /\ InitA \/ InitC
    /\ [][NextUp]_vars
    /\ WF_vars(SchedulerStep)
    /\ WF_vars(\E w \in Workers : WorkerStep(w) /\ ~FetchFails(w))

\* The crawl with a fetcher that returns an error on every call.
NextDown ==
    \/ Start
    \/ ReceiveJob
    \/ AdmitLock
    \/ AdmitMark
    \/ AdmitCount
    \/ AcquirePermit
    \/ StartWorker
    \/ Timeout
    \/ ReadActiveWorkers
    \/ IdleCheck
    \/ Wait
    \/ FinalizeLock
    \/ Return
    \/ \E w \in Workers : Sleep(w)
    \/ \E w \in Workers : FetchFails(w)
    \/ \E w \in Workers : WorkerLock(w)
    \/ \E w \in Workers : RecordFailure(w)
    \/ \E w \in Workers : LeaveActive(w)
    \/ \E w \in Workers : ReleasePermit(w)
    \/ \E w \in Workers : Done(w)

DownSpec ==
    /\ Init
    /\ [][NextDown]_vars
    /\ WF_vars(SchedulerStep)
    /\ \A w \in WorkerIds : WF_vars(WorkerStep(w) /\ ~FetchSucceeds(w))

\* ------------------------------------------------------------ claims
Range(q) == {q[i] : i \in 1..Len(q)}

NoDuplicates(q) == \A i, j \in 1..Len(q) : i # j => q[i] # q[j]

\* the positions at which a worker does its unit of work, permit in hand
Working == {"sleep", "fetch", "failLock", "failRecord", "okLock", "okRecord",
            "fileLock", "fileAppend", "enqueue", "exit", "release"}

\* the positions at which a worker expands its page
Expanding == {"fileLock", "fileAppend", "enqueue"}

\* C1: in every state TotalPages is at most MaxPages, a MaxPages of zero or
\* less counting as 1.
C1_TotalPagesWithinMaxPages ==
    result.TotalPages <= (IF options.MaxPages <= 0 THEN 1 ELSE options.MaxPages)

\* the crawl has returned at the page limit, with a job left in the channel
C1_Witness ==
    /\ pc = "returned"
    /\ options.MaxPages = 2
    /\ result.TotalPages = 2
    /\ urlJobs # <<>>

\* C2: outside the scheduler's critical section the visited set has exactly
\* TotalPages members, every worker was started for a visited URL, and no
\* two workers were started for the same URL.
C2_AdmittedOnce ==
    /\ mu # Scheduler => Cardinality(visitedURLs) = result.TotalPages
    /\ Len(workers) <= result.TotalPages
    /\ \A w \in Workers : workers[w].currentURL \in visitedURLs
    /\ \A v, w \in Workers : v # w => workers[v].currentURL # workers[w].currentURL

\* a job for a URL that a worker was already started for is at the gate
C2_Witness ==
    /\ pc = "visited"
    /\ mu = Scheduler
    /\ \E w \in Workers : workers[w].currentURL = job.url

\* C3: CrawledURLs holds no URL twice and no key of FailedPages.
C3_CrawledDistinctFromFailed ==
    /\ NoDuplicates(result.CrawledURLs)
    /\ Range(result.CrawledURLs) \cap Keys(result.FailedPages) = {}

\* one page was fetched and another page failed
C3_Witness ==
    /\ pc = "returned"
    /\ Len(result.CrawledURLs) = 1
    /\ Cardinality(Keys(result.FailedPages)) = 1

\* C4: every admitted job has a depth of at most MaxDepth, every URL in
\* CrawledURLs or FailedPages is that of such a job, and a worker whose
\* page is at MaxDepth never reaches the expansion of its links.
C4_DepthRespected ==
    /\ job # NoJob => job.depth <= options.MaxDepth
    /\ \A w \in Workers :
          /\ workers[w].currentDepth <= options.MaxDepth
          /\ workers[w].currentDepth = options.MaxDepth =>
                /\ workers[w].pc \notin Expanding
                /\ workers[w].crawlableLinks = {}
                /\ workers[w].fileLinks = {}
    /\ \A u \in Range(result.CrawledURLs) \cup Keys(result.FailedPages) :
          \E w \in Workers : workers[w].currentURL = u

\* a page at MaxDepth = 1 was fetched and its worker has ended
C4_Witness ==
    /\ options.MaxDepth = 1
    /\ \E w \in Workers :
          /\ workers[w].currentDepth = 1
          /\ workers[w].pc = "exited"
          /\ workers[w].currentURL \in Range(result.CrawledURLs)

\* C5: at most Concurrency workers are at work at any time.
C5_BoundedParallelism ==
    options.Concurrency > 0 =>
       Cardinality({w \in Workers : workers[w].pc \in Working})
          <= options.Concurrency

\* the scheduler waits for a permit while the only permit is in use
C5_Witness ==
    /\ options.Concurrency = 1
    /\ pc = "acquire"
    /\ semaphore = 1
    /\ \E w \in Workers : workers[w].pc = "enqueue"

\* C6: under fair scheduling, and with a fetcher whose calls return, the
\* crawl returns, and a scheduler that waits for a permit gets one.
C6_Terminates ==
    /\ <>(pc \in {"returned", "error"})
    /\ (pc = "acquire") ~> (pc = "spawn")

\* the crawl has returned after two workers shared the only permit
C6_Witness ==
    /\ pc = "returned"
    /\ options.Concurrency = 1
    /\ Len(workers) = 2

\* C7: when every call of the fetcher fails and MaxDepth >= 0, the crawl of
\* a seed that parses returns a result with TotalPages = 1, no successful
\* page, no crawled URL, and the seed as the only key of FailedPages.
C7_AllFetchesFail ==
    (targetURL.ok /\ options.MaxDepth >= 0) =>
       <>[](/\ pc = "returned"
            /\ result.TotalPages = 1
            /\ result.SuccessfulPages = 0
            /\ result.CrawledURLs = <<>>
            /\ Keys(result.FailedPages) = {targetURL})

\* the crawl has returned the failure of the seed, with room for more pages
C7_Witness ==
    /\ pc = "returned"
    /\ options.MaxPages = 2
    /\ Keys(result.FailedPages) = {targetURL}
    /\ result.SuccessfulPages = 0

\* C8: the scheduler is past wg.Wait() only when every worker has ended
\* and given back its permit, and the result does not change once returned.
C8_ReturnAfterJoin ==
    /\ [](pc \in {"finalize", "finalizing", "returned"} =>
             /\ \A w \in Workers : workers[w].pc = "exited"
             /\ semaphore = 0
             /\ wg = 0
             /\ activeWorkers = 0)
    /\ [][pc = "returned" => result' = result]_vars

\* the crawl has returned the pages of two workers
C8_Witness ==
    /\ pc = "returned"
    /\ Len(workers) = 2
    /\ Len(result.CrawledURLs) = 2
    /\ \A w \in Workers : workers[w].pc = "exited"

\* C9: the DetectedFileUrls of the returned result holds no URL twice.
C9_ReturnedFilesDistinct ==
    pc = "returned" => NoDuplicates(result.DetectedFileUrls)

\* C10: with a seed that does not parse, the crawl goes from its start to
\* the return of the error only: no job is sent, no URL admitted, no
\* permit taken, no worker started, and the result stays empty.
C10_BadSeedFailsFast ==
    ~targetURL.ok =>
       /\ pc \in {"start", "error"}
       /\ urlJobs = <<>>
       /\ job = NoJob
       /\ visitedURLs = {}
       /\ result = EmptyResult
       /\ semaphore = 0
       /\ wg = 0
       /\ activeWorkers = 0
       /\ workers = <<>>

\* the crawl of a seed that does not parse has returned its error
C10_Witness ==
    /\ pc = "error"
    /\ ~targetURL.ok
    /\ workers = <<>>

\* C11: a call with MaxPages <= 0 runs, from line 61 on, with the options
\* of the same call with MaxPages = 1: the channel has capacity 2 and never
\* holds more, TotalPages stays at most 1, and with MaxDepth >= 0 the crawl
\* returns with the seed admitted.
C11_NonPositiveMaxPagesIsOne ==
    options0.MaxPages <= 0 =>
       /\ pc # "start" =>
             /\ options = [options0 EXCEPT !.MaxPages = 1]
             /\ urlJobsCap(options) = 2
       /\ Len(urlJobs) <= 2
       /\ result.TotalPages <= 1
       /\ (pc = "returned" /\ options.MaxDepth >= 0) =>
             /\ targetURL \in visitedURLs
             /\ result.TotalPages = 1

\* a call with MaxPages <= 0 has returned with the seed admitted and the
\* channel filled to its capacity of 2
C11_Witness ==
    /\ pc = "returned"
    /\ options0.MaxPages <= 0
    /\ result.TotalPages = 1
    /\ Len(urlJobs) = 2

\* where a worker is between the fetcher's error and its record
Failing == {"failLock", "failRecord"}

\* where a worker is after its last write to the result and the channel
Leaving == {"exit", "release", "wgDone", "exited"}

\* C12: a failed fetch leaves its URL in FailedPages and nothing else: the
\* worker's steps from the error to the record change neither the channel
\* nor the scheduler's state, and of the result only FailedPages[url]; a
\* worker whose URL is in FailedPages is on its way out with no links and
\* its URL is not in CrawledURLs; each URL has one worker, which comes to
\* the fetcher's call once; the scheduler keeps admitting after a failure.
C12_FailureOnlyRecorded ==
    /\ [](\A w \in Workers :
            workers[w].currentURL \in Keys(result.FailedPages) =>
               /\ workers[w].pc \in Leaving
               /\ workers[w].crawlableLinks = {}
               /\ workers[w].fileLinks = {}
               /\ workers[w].currentURL \notin Range(result.CrawledURLs))
    /\ [](\A v, w \in Workers :
            v # w => workers[v].currentURL # workers[w].currentURL)
    /\ [][\A w \in Workers :
            /\ (workers'[w].pc = "fetch" /\ workers[w].pc # "fetch") =>
                  workers[w].pc = "sleep"
            /\ (workers[w].pc \in Failing /\ workers'[w] # workers[w]) =>
                  /\ urlJobs' = urlJobs
                  /\ <<pc, job, visitedURLs, options>>' =
                        <<pc, job, visitedURLs, options>>
                  /\ \/ result' = result
                     \/ result' =
                           [result EXCEPT
                              !.FailedPages =
                                 MapSet(@, workers[w].currentURL, "error")]
                  /\ workers'[w].pc \in Failing \cup Leaving]_vars

\* after the fetch of one URL failed, the scheduler counts the admission
\* of another URL
C12_Witness ==
    /\ pc = "count"
    /\ Keys(result.FailedPages) # {}
    /\ job.url \notin Keys(result.FailedPages)
    /\ \E w \in Workers :
          /\ workers[w].currentURL \in Keys(result.FailedPages)
          /\ workers[w].pc = "exited"

\* strings.ToLower(a.Host) == strings.ToLower(b.Host)
SameHost(a, b) == ToLowerSeq(a.host) = ToLowerSeq(b.host)

\* the URLs of the jobs in the channel, the seed's own job left out
Enqueued ==
    {urlJobs[i].url :
        i \in {j \in 1..Len(urlJobs) : urlJobs[j].depth > 0}}

\* C13: with CrawlSubDomain false, every URL a worker holds for the channel,
\* every URL of a job sent by a worker and every admitted URL but the seed
\* has the seed's host, letter case aside.
C13_ExactHostOnly ==
    ~options.CrawlSubDomain =>
       /\ \A u \in visitedURLs \ {targetURL} : SameHost(u, targetURL)
       /\ \A u \in Enqueued : SameHost(u, targetURL)
       /\ job.depth > 0 => SameHost(job.url, targetURL)
       /\ \A w \in Workers :
             \A u \in workers[w].crawlableLinks : SameHost(u, targetURL)

\* with CrawlSubDomain false, a link whose host differs from the seed's in
\* letter case only has been admitted
C13_Witness ==
    /\ ~options.CrawlSubDomain
    /\ \E u \in visitedURLs :
          /\ u # targetURL
          /\ u.host # targetURL.host
          /\ \E w \in Workers : workers[w].currentURL = u

\* host a is host b with one more label in front
IsSubdomainOf(a, b) == Len(a) = Len(b) + 1 /\ Tail(a) = b

\* the hrefs of the page a worker has just classified: the site's pages
\* carry one list
PageLinks == UNION site

LoopLeft == {"wait", "finalize", "finalizing", "returned"}

\* C16: the crawl of scenario A returns and stays returned with TotalPages
\* 3, SuccessfulPages 3, the seed, p1 and p2 once each in CrawledURLs, no
\* FailedPages and doc.pdf alone in DetectedFileUrls; no worker is ever
\* started for doc.pdf.
C16_ScenarioA ==
    /\ []((site = {PageA}) =>
             /\ LinkPdf \notin visitedURLs
             /\ \A w \in Workers : workers[w].currentURL # LinkPdf)
    /\ (site = {PageA}) =>
          <>[](/\ pc = "returned"
               /\ result.TotalPages = 3
               /\ result.SuccessfulPages = 3
               /\ Len(result.CrawledURLs) = 3
               /\ Range(result.CrawledURLs) = {SeedA, LinkP1, LinkP2}
               /\ Keys(result.FailedPages) = {}
               /\ result.DetectedFileUrls = <<LinkPdf>>)

\* scenario A has returned its three pages and its one file
C16_Witness ==
    /\ site = {PageA}
    /\ pc = "returned"
    /\ Len(workers) = 3
    /\ result.DetectedFileUrls = <<LinkPdf>>

\* C17: the crawl of scenario C returns and stays returned with TotalPages
\* 1 and the seed alone in the visited map; from the start of the seed's
\* worker on the scheduler is out of its loop, and no job of a discovered
\* link, sent or skipped, is received, admitted or given a worker.
C17_ScenarioC ==
    /\ []((site = {PageC}) =>
             /\ visitedURLs \subseteq {SeedA}
             /\ job.url \in {EmptyStr, SeedA}
             /\ \A w \in Workers : workers[w].currentURL = SeedA
             /\ workers # <<>> => pc \in LoopLeft)
    /\ (site = {PageC}) =>
          <>[](/\ pc = "returned"
               /\ result.TotalPages = 1
               /\ visitedURLs = {SeedA})

\* scenario C has returned with two of the discovered links still in the
\* channel and the others skipped
C17_Witness ==
    /\ site = {PageC}
    /\ pc = "returned"
    /\ result.SuccessfulPages = 1
    /\ Len(urlJobs) = 2
    /\ \E w \in Workers : workers[w].pc = "exited"

\* C18: when SpiderWebsite has returned its result, TotalPages is MaxPages
\* or the channel holds no job.
C18_LimitOrEmptyAtReturn ==
    pc = "returned" =>
       \/ result.TotalPages = options.MaxPages
       \/ urlJobs = <<>>

\* the crawl has returned below its page limit, after a worker expanded a
\* page, with nothing left in the channel
C18_Witness ==
    /\ pc = "returned"
    /\ result.TotalPages < options.MaxPages
    /\ result.SuccessfulPages >= 1
    /\ options.MaxDepth >= 1
    /\ urlJobs = <<>>

\* where a worker is counted in activeWorkers
Counted == Working \ {"release"}

\* C20: the scheduler goes from the idle check to wg.Wait only with
\* activeWorkers zero and the channel empty; once it has left its loop
\* below the page limit the channel stays empty, since no worker is left
\* that could send: activeWorkers counts exactly the workers that have not
\* yet run their deferred decrement, and those that have hold no link.
C20_IdleExitIsFinal ==
    /\ [][(pc = "idleCheck" /\ pc' = "wait") =>
             /\ activeWorkers = 0
             /\ urlJobs = <<>>]_vars
    /\ []((pc \in LoopLeft /\ result.TotalPages < options.MaxPages) =>
             /\ urlJobs = <<>>
             /\ activeWorkers = 0
             /\ \A w \in Workers : workers[w].pc \notin Counted)
    /\ [](/\ activeWorkers =
                Cardinality({w \in Workers : workers[w].pc \in Counted})
          /\ \A w \in Workers :
                workers[w].pc \notin Counted =>
                   workers[w].crawlableLinks = {})

\* the scheduler has taken the idle exit below the page limit and waits
\* for a worker that has still to call wg.Done
C20_Witness ==
    /\ pc = "wait"
    /\ result.TotalPages < options.MaxPages
    /\ result.TotalPages >= 1
    /\ wg > 0
    /\ urlJobs = <<>>

\* where the scheduler is inside its loop
Running ==
    {"select", "lock", "visited", "count", "acquire", "spawn", "timedOut",
     "idleCheck"}

\* what SpiderWebsite and its workers read and write
crawlVars ==
    <<options, targetURL, site, pc, job, urlJobs, visitedURLs, result, mu,
      semaphore, wg, activeWorkers, currentActiveWorkers, workers>>

C21_NoAdmissionAfterLoop ==
    [][(pc \in LoopLeft) =>
          /\ pc' \in LoopLeft
          /\ result'.TotalPages = result.TotalPages
          /\ visitedURLs' = visitedURLs
          /\ job' = job
          /\ Len(workers') = Len(workers)
          /\ Len(urlJobs') >= Len(urlJobs)]_vars

\* the scheduler waits for its workers after the page limit was reached,
\* and a worker that has sent one job since then is about to send another
C21_Witness ==
    /\ pc = "wait"
    /\ result.TotalPages = options.MaxPages
    /\ Len(workers) = 1
    /\ workers[1].pc = "enqueue"
    /\ Len(urlJobs) = 1

\* C22: the channel never holds more than 2 * MaxPages jobs; a worker in
\* its enqueue loop can always take its next turn; a turn taken with the
\* channel full changes nothing but the worker's own list of links; and
\* the crawl comes to rest with every worker gone and no permit held.
C22_EnqueueNeverBlocks ==
    /\ [](pc # "start" => Len(urlJobs) <= 2 * options.MaxPages)
    /\ [](\A w \in Workers :
            workers[w].pc = "enqueue" => ENABLED Enqueue(w))
    /\ [][\A w \in Workers :
            (/\ workers[w].pc = "enqueue"
             /\ workers'[w] # workers[w]
             /\ Len(urlJobs) = 2 * options.MaxPages) =>
               /\ urlJobs' = urlJobs
               /\ result' = result
               /\ visitedURLs' = visitedURLs
               /\ <<pc, job, mu, semaphore, wg, activeWorkers>>' =
                     <<pc, job, mu, semaphore, wg, activeWorkers>>
               /\ workers'[w].pc \in {"enqueue", "exit"}
               /\ Cardinality(workers'[w].crawlableLinks) =
                     Cardinality(workers[w].crawlableLinks) - 1]_vars
    /\ <>[](/\ pc = "returned"
            /\ semaphore = 0
            /\ \A w \in Workers : workers[w].pc = "exited")

\* a worker with links still to send is at a turn of its enqueue loop
\* with the channel full
C22_Witness ==
    \E w \in Workers :
       /\ workers[w].pc = "enqueue"
       /\ Cardinality(workers[w].crawlableLinks) >= 2
       /\ Len(urlJobs) = 2 * options.MaxPages

C24_SchedulerWaitsOnlyForJobs ==
    (pc \in Running /\ pc # "lock") => ENABLED SchedulerStep

\* C24, amended: inside its loop the scheduler is held up only at the
\* result lock, while a worker holds it, and at the acquisition of a
\* permit, while all permits are held; in the latter state it receives
\* no job and starts no worker until a permit is given back; every worker
\* that has been started holds its permit until it gives it back.
C24_SchedulerWaitsForPermit ==
    /\ []((pc \in Running /\ ~ENABLED SchedulerStep) =>
             \/ pc = "lock" /\ mu \in Workers
             \/ pc = "acquire" /\ semaphore = options.Concurrency)
    /\ []((pc = "acquire" /\ semaphore = options.Concurrency) =>
             ~ENABLED SchedulerStep)
    /\ [][(pc = "acquire" /\ semaphore = options.Concurrency) =>
             /\ pc' = pc
             /\ job' = job
             /\ Len(urlJobs') >= Len(urlJobs)
             /\ Len(workers') = Len(workers)]_vars
    /\ [](Cardinality({w \in Workers : workers[w].pc \in Working})
             <= semaphore)

\* the scheduler waits for a permit with a job still in the channel
C24_Witness ==
    /\ pc = "acquire"
    /\ semaphore = options.Concurrency
    /\ urlJobs # <<>>
    /\ \E w \in Workers : workers[w].pc \in Working

\* C25: when SpiderWebsite has returned, with a result or with an error,
\* the SpiderOptions the caller's pointer refers to are what they were
\* when the call was made.
C25_OptionsUnchanged ==
    pc \in {"returned", "error"} => options = options0

\* where the scheduler is between mu.Lock() and mu.Unlock()
SchedulerLocked == {"visited", "count", "finalizing"}

\* where a worker is between mu.Lock() and mu.Unlock()
WorkerLocked == {"failRecord", "okRecord", "fileAppend"}

\* C26: mu is held by the scheduler exactly while it tests and marks the
\* visited map, counts the page or reads the file list at the end, and
\* by a worker exactly while it records its failure, its page or its file
\* links: never while waiting for a permit or for the workers, sleeping,
\* fetching or sending to the channel; and at most one of them is inside
\* such an update.
C26_ShortCriticalSections ==
    /\ mu \in {Unlocked, Scheduler} \cup Workers
    /\ (mu = Scheduler) <=> (pc \in SchedulerLocked)
    /\ \A w \in Workers : (mu = w) <=> (workers[w].pc \in WorkerLocked)
    /\ Cardinality({w \in Workers : workers[w].pc \in WorkerLocked})
          + (IF pc \in SchedulerLocked THEN 1 ELSE 0) <= 1

\* one worker is inside its update of the result while another worker
\* waits for the lock
C26_Witness ==
    \E v, w \in Workers :
       /\ mu = v
       /\ workers[v].pc = "okRecord"
       /\ workers[w].pc \in {"okLock", "failLock", "fileLock"}

\* the page at base carries, in one of the link lists the fetcher may
\* return, a href that processLinkFromResponse puts in the set of this kind
\* as u
ClassifiedAs(kind, u, base) ==
    \E links \in site : \E h \in links :
       processLinkFromResponse(TrimSpace(h), base, targetURL,
                               options.CrawlSubDomain)
          = [kind |-> kind, url |-> u]

\* C27: the crawlable set and the file set of a page are disjoint; what a
\* page's expansion sends to the channel was classified crawlable on that
\* page and not file; the file set is appended to DetectedFileUrls; and a
\* visited URL is the seed or was classified crawlable on a visited page.
C27_OnlyCrawlableEnqueued ==
    /\ [](\A w \in Workers :
            /\ workers[w].crawlableLinks \cap workers[w].fileLinks = {}
            /\ \A u \in workers[w].crawlableLinks :
                  /\ ClassifiedAs("crawl", u, workers[w].currentURL)
                  /\ ~ClassifiedAs("file", u, workers[w].currentURL)
            /\ \A u \in workers[w].fileLinks :
                  ClassifiedAs("file", u, workers[w].currentURL))
    /\ [][(pc # "start" /\ Len(urlJobs') > Len(urlJobs)) =>
            \E w \in Workers :
               /\ workers[w].pc = "enqueue"
               /\ urlJobs'[Len(urlJobs')].url \in workers[w].crawlableLinks
               /\ workers'[w].crawlableLinks =
                     workers[w].crawlableLinks \ {urlJobs'[Len(urlJobs')].url}]_vars
    /\ [][\A w \in Workers :
            (workers[w].pc = "fileAppend" /\ workers'[w].pc # "fileAppend") =>
               /\ workers[w].fileLinks \subseteq Range(result'.DetectedFileUrls)
               /\ workers'[w].crawlableLinks = workers[w].crawlableLinks]_vars
    /\ [](\A u \in visitedURLs :
            \/ u = targetURL
            \/ \E page \in visitedURLs : ClassifiedAs("crawl", u, page))

\* a page's file link is in DetectedFileUrls and not visited, while its
\* crawlable link is in the channel one level down
C27_Witness ==
    /\ LinkPdf \in Range(result.DetectedFileUrls)
    /\ LinkPdf \notin visitedURLs
    /\ \E i \in 1..Len(urlJobs) : urlJobs[i] = urlJob(LinkP1, 1)

\* C28: CrawledURLs and the keys of FailedPages are disjoint sets of
\* visited URLs, SuccessfulPages is the length of CrawledURLs, and the two
\* together count at most TotalPages; when SpiderWebsite returns its result
\* they partition the visited URLs and count exactly TotalPages.
C28_OneOutcomePerPage ==
    /\ Range(result.CrawledURLs) \subseteq visitedURLs
    /\ Keys(result.FailedPages) \subseteq visitedURLs
    /\ NoDuplicates(result.CrawledURLs)
    /\ Range(result.CrawledURLs) \cap Keys(result.FailedPages) = {}
    /\ result.SuccessfulPages = Len(result.CrawledURLs)
    /\ result.SuccessfulPages + Cardinality(Keys(result.FailedPages))
          <= result.TotalPages
    /\ pc = "returned" =>
          /\ Range(result.CrawledURLs) \cup Keys(result.FailedPages)
                = visitedURLs
          /\ result.SuccessfulPages + Cardinality(Keys(result.FailedPages))
                = result.TotalPages

\* the crawl has returned with a page fetched and a page that failed
C28_Witness ==
    /\ pc = "returned"
    /\ result.SuccessfulPages >= 1
    /\ Keys(result.FailedPages) # {}
    /\ result.TotalPages = 2

\* the permits in use: one for each worker that has not released its
\* permit, and the one the scheduler took for the worker it is starting
PermitsHeld ==
    Cardinality({w \in Workers : workers[w].pc \in Working})
       + (IF pc = "spawn" THEN 1 ELSE 0)

\* C29: activeWorkers counts the workers that have not run their deferred
\* decrement and the semaphore holds one permit for each worker that has
\* not run its deferred release, so activeWorkers <= permits held <=
\* Concurrency; a worker leaves only through its deferred calls, which
\* take one off activeWorkers and then one off the semaphore, after a
\* failure as after a success; and at the return both are zero.
C29_PermitAccounting ==
    /\ [](/\ activeWorkers =
                Cardinality({w \in Workers : workers[w].pc \in Counted})
          /\ semaphore = PermitsHeld
          /\ activeWorkers <= semaphore
          /\ semaphore <= options.Concurrency
          /\ pc = "returned" => activeWorkers = 0 /\ semaphore = 0)
    /\ [][\A w \in Workers :
            /\ (workers[w].pc \in Counted \ {"exit"}) =>
                  workers'[w].pc \in Counted
            /\ (workers[w].pc = "exit" /\ workers'[w].pc # "exit") =>
                  /\ workers'[w].pc = "release"
                  /\ activeWorkers' = activeWorkers - 1
                  /\ semaphore' = semaphore
            /\ (workers[w].pc = "release" /\ workers'[w].pc # "release") =>
                  /\ workers'[w].pc = "wgDone"
                  /\ semaphore' = semaphore - 1
                  /\ activeWorkers' = activeWorkers
            /\ (workers[w].pc \in {"wgDone", "exited"}) =>
                  workers'[w].pc \in {"wgDone", "exited"}]_vars
    /\ [][/\ activeWorkers' < activeWorkers =>
               \E w \in Workers :
                  workers[w].pc = "exit" /\ workers'[w].pc = "release"
          /\ semaphore' < semaphore =>
               \E w \in Workers :
                  workers[w].pc = "release" /\ workers'[w].pc = "wgDone"]_vars

\* the crawl has returned after a worker whose fetch failed and a worker
\* whose fetch succeeded have both left, with no permit held
C29_Witness ==
    /\ pc = "returned"
    /\ semaphore = 0
    /\ activeWorkers = 0
    /\ \E v, w \in Workers :
          /\ workers[v].currentURL \in Keys(result.FailedPages)
          /\ workers[w].currentURL \in Range(result.CrawledURLs)
          /\ workers[v].pc = "exited"
          /\ workers[w].pc = "exited"

\* the jobs in the channel and the job the scheduler has taken from it
JobsAtHand == Range(urlJobs) \cup (IF job = NoJob THEN {} ELSE {job})

\* TotalPages and the visited map change only in the scheduler's own
\* steps at lines 100-101, which are no worker's
OnlySchedulerAdmits ==
    [][(result'.TotalPages # result.TotalPages \/ visitedURLs' # visitedURLs)
          => /\ pc \in {"visited", "count"}
             /\ pc' # pc
             /\ workers' = workers]_vars

\* a job a worker sends is one level below the page it was found on
WorkerJobsOneLevelDown ==
    [][(pc # "start" /\ Len(urlJobs') > Len(urlJobs)) =>
          \E w \in Workers :
             /\ workers[w].pc = "enqueue"
             /\ \E link \in workers[w].crawlableLinks :
                   urlJobs' = Append(urlJobs,
                                     urlJob(link, workers[w].currentDepth + 1))]_vars

\* the scheduler receives a job only with TotalPages below MaxPages
DequeueBelowMaxPages ==
    [][(Len(urlJobs') < Len(urlJobs)) =>
          /\ pc = "select"
          /\ result.TotalPages < options.MaxPages]_vars

\* C30 as stated: only the scheduler admits, a worker's job is one level
\* below its page, every job in the channel has a depth between 0 and
\* MaxDepth, and TotalPages < MaxPages at each receive.
C30_DepthsWithinMaxDepth ==
    /\ OnlySchedulerAdmits
    /\ WorkerJobsOneLevelDown
    /\ [](\A j \in JobsAtHand : 0 <= j.depth /\ j.depth <= options.MaxDepth)
    /\ DequeueBelowMaxPages

\* C30, amended: only the scheduler admits, a worker's job is one level
\* below its page, and TotalPages < MaxPages at each receive; a job a
\* worker sent has a depth between 1 and MaxDepth, and the seed's job has
\* depth 0, which is above MaxDepth when MaxDepth is negative: the seed's
\* job is then received and rejected, and nothing is admitted.
C30_WorkerDepthsWithinMaxDepth ==
    /\ OnlySchedulerAdmits
    /\ WorkerJobsOneLevelDown
    /\ [](\A j \in JobsAtHand :
            \/ j = urlJob(targetURL, 0)
            \/ 1 <= j.depth /\ j.depth <= options.MaxDepth)
    /\ [](\A w \in Workers :
            0 <= workers[w].currentDepth
               /\ workers[w].currentDepth <= options.MaxDepth)
    /\ [](options.MaxDepth < 0 =>
            /\ JobsAtHand \subseteq {urlJob(targetURL, 0)}
            /\ pc \in {"start", "error", "select", "timedOut", "idleCheck"}
                     \cup LoopLeft
            /\ result.TotalPages = 0
            /\ visitedURLs = {})
    /\ DequeueBelowMaxPages

\* the scheduler is about to receive, one page admitted, and a worker has
\* sent a job at depth MaxDepth
C30_Witness ==
    /\ pc = "select"
    /\ result.TotalPages = 1
    /\ options.MaxPages = 2
    /\ \E i \in 1..Len(urlJobs) :
          /\ urlJobs[i].depth = options.MaxDepth
          /\ urlJobs[i].depth = 1
          /\ urlJobs[i].url # targetURL

=============================================================================
